---- MODULE Spec2Model ----
(***************************************************************************)
(* AVLBinaryTree<T> (the draft with insert(key)/remove(key)), Stack<T> and *)
(* QueueADT<T>, with T = int.                                              *)
(*                                                                         *)
(* The tree is modelled by value: a Node is a record of the five fields of *)
(* class Node, a null pointer is NIL.  The class owns every node through   *)
(* exactly one pointer, so the value of `root` is the whole structure      *)
(* reachable from the root pointer.  A helper that dereferences nullptr    *)
(* yields CRASH, which every caller propagates.                            *)
(*                                                                         *)
(* fault records how a call ended: "none" when it returned or threw,       *)
(* "null_deref" when it dereferenced nullptr, "use_after_free" when it     *)
(* touched a node it had deleted and the run did not survive that,         *)
(* "empty_front" when it called std::queue::front() on an empty queue.  A  *)
(* faulted program takes no further step.  Stores through a pointer that   *)
(* was just deleted either land in the freed block (the node is then       *)
(* unlinked) or stop the run; reads through the dangling root always end   *)
(* in "use_after_free", which stands for every outcome such a read can     *)
(* have, and so does "empty_front".  An exception is part of the call's    *)
(* result (Throws), and the object stays as the throw left it.             *)
(*                                                                         *)
(* `other` is a second tree, the argument of equals and of copy            *)
(* assignment; it is built by insert calls only.                           *)
(*                                                                         *)
(* Stack<T> and QueueADT<T> are singly and doubly linked lists.  A list is *)
(* modelled by the sequence of the data of the nodes reachable from head_  *)
(* through next, <<>> for head_ = nullptr.  QueueADT's tail_ is "nullptr", *)
(* "last" (the last node of that sequence) or "freed" (a deleted node).    *)
(* Stack.h is read with its missing semicolons supplied and Node's members *)
(* accessible.                                                             *)
(*                                                                         *)
(* PriorityQueueADT<T> keeps its heap in T minHeap[8], slot 0 unused; the  *)
(* array is a function on 0..HeapCapacity-1 and keeps the values left      *)
(* behind above size_.  The class body is read with its syntax repaired;   *)
(* _isLeaf is declared and called but defined nowhere.                     *)
(*                                                                         *)
(* HashTable<K, V> with K = V = int keeps list<pair<K, V>> table[10]; a    *)
(* bucket is the sequence of its pairs [first, second].  An index outside  *)
(* the array ends the call in "out_of_bounds".  A loop that can only be    *)
(* left by a return it never reaches either runs forever, fault            *)
(* "no_return", or is compiled as if it ended, and the call then returns   *)
(* through that return statement.                                          *)
(*                                                                         *)
(* LinkedList<T> is modelled with its pointers: `nodes` is the sequence of *)
(* every Node allocated so far, a Node* is an index into it and nullptr is *)
(* 0.  A Node is [next, prev, data, deleted].  Any access through a        *)
(* pointer to a deleted Node ends the call in "use_after_free", which      *)
(* stands for every outcome of such an access.  LinkedList.h is read with  *)
(* its missing semicolons supplied; `tortoise->next->` is read as          *)
(* `tortoise->next`; Node has no operator==, and `*tortoise == *haire` is  *)
(* read as the comparison of the two addresses its comment asks for.       *)
(* `obj` is a second list, the argument of merge.                          *)
(*                                                                         *)
(* PrefixTree is modelled by value like the AVL tree: a Node is            *)
(* [children, endOfWord], children a function from the chars that are keys *)
(* of the std::map to the child, NIL for an entry that holds nullptr       *)
(* (std::map::operator[] makes such an entry when the key is absent).  A   *)
(* char is its code and a std::string the sequence of its chars; word[i]   *)
(* at i = length() is the terminator 0.                                    *)
(***************************************************************************)
EXTENDS Integers, Sequences, FiniteSets, TLC

\* ---------------------------------------------------------------- bounds
MaxKey == 3
MaxNodes == 4
MaxLog == 7
MaxAsc == 7
MaxOther == 3
MaxStack == 3
MaxQueue == 3
MaxHeap == 4
MaxBucket == 1
MaxValue == 1
MaxEntries == 2
MaxElem == 2
MaxAlloc == 3
MaxLetters == 2
MaxWordLen == 2
MaxCalls == 4

\* T minHeap[8], capacity_(8)
HeapCapacity == 8

\* static const int buckets = 10
buckets == 10

Keys == 0..MaxKey
\* the keys and values passed to the hash table: a negative key, and two keys
\* for each of the buckets 0..MaxBucket
TableKeys == {-1} \cup {k + c * buckets : k \in 0..MaxBucket, c \in 0..1}
Values == 0..MaxValue
\* the elements pushed on a LinkedList
Elems == 0..MaxElem

\* the char a std::string yields at index length(), the char 'a', and the
\* wildcard '*'
NUL == 0
LetterA == 97
Star == 42

\* the first MaxLetters lower-case letters
Letters == LetterA..(LetterA + MaxLetters - 1)

\* the strings of at most n chars of the set chars
RECURSIVE Strings(_, _)
Strings(chars, n) ==
    IF n = 0 THEN {<<>>}
    ELSE Strings(chars, n - 1)
         \cup {<<ch>> \o w : ch \in chars, w \in {v \in Strings(chars, n - 1) : Len(v) = n - 1}}

\* the words inserted and removed, and the patterns searched for
Words == Strings(Letters, MaxWordLen)
Patterns == Strings(Letters \cup {Star}, MaxWordLen)

\* ----------------------------------------------------------------- state
VARIABLES
    root,       \* Node *root, with everything reachable from it
    treeSize,   \* int treeSize
    rootFreed,  \* TRUE when the node `root` points to has been deleted
    fault,      \* "none", or what stopped the program
    lastOp,     \* history: the last public call [op, key, ret]
    pre,        \* history: [root, treeSize, rootFreed] before the last call
                \* on this tree
    log,        \* history: keys inserted so far while every mutating call
                \* was an insert and at most MaxLog were made, else Overflow
    other,      \* a second AVLBinaryTree: [root, treeSize]
    stack,      \* a Stack: [head_, size_]
    pushed,     \* history: the elements pushed and not yet popped, oldest first
    queue,      \* a QueueADT: [head_, tail_, size_]
    queued,     \* history: the elements enqueued and not yet dequeued, oldest first
    heap,       \* a PriorityQueueADT: [minHeap, size_, capacity_]
    table,      \* a HashTable: list<pair<K, V>> table[buckets]
    list,       \* a LinkedList: [head_, tail_, size_, nodes]
    obj,        \* a second LinkedList
    trie,       \* a PrefixTree: [root, wordCount_]
    trieCalls   \* history: the number of calls made on trie

vars == <<root, treeSize, rootFreed, fault, lastOp, pre, log, other,
          stack, pushed, queue, queued, heap, table, list, obj,
          trie, trieCalls>>

\* the variables of each container
avlVars == <<root, treeSize, rootFreed, pre, log, other>>
stackVars == <<stack, pushed>>
queueVars == <<queue, queued>>
heapVars == <<heap>>
tableVars == <<table>>
listVars == <<list, obj>>
trieVars == <<trie, trieCalls>>

\* what a call on a container leaves alone
notAVL == <<stackVars, queueVars, heapVars, tableVars, listVars, trieVars>>
notTree == <<other, notAVL>>
notStack == <<avlVars, queueVars, heapVars, tableVars, listVars, trieVars>>
notQueue == <<avlVars, stackVars, heapVars, tableVars, listVars, trieVars>>
notHeap == <<avlVars, stackVars, queueVars, tableVars, listVars, trieVars>>
notTable == <<avlVars, stackVars, queueVars, heapVars, listVars, trieVars>>
notList == <<avlVars, stackVars, queueVars, heapVars, tableVars, trieVars>>
notTrie == <<avlVars, stackVars, queueVars, heapVars, tableVars, listVars>>

NIL == [nil |-> TRUE]
CRASH == [crash |-> TRUE]
Overflow == <<-1>>

\* how a call that can throw ended: with a value, or with an exception
Returns(value) == [value |-> value]
Throws(what) == [what |-> what]

Max(a, b) == IF a >= b THEN a ELSE b

\* Node(const T &dataArg)
Node(dataArg) ==
    [left |-> NIL, right |-> NIL, data |-> dataArg, height |-> 0, balanceFactor |-> 0]

\* !child ? -1 : child->height
cachedHeight(child) == IF child = NIL THEN -1 ELSE child.height

updateHeight(node) ==
    LET left == cachedHeight(node.left)
        right == cachedHeight(node.right)
    IN [node EXCEPT !.height = Max(left, right) + 1,
                    !.balanceFactor = right - left]

\* leftRotation that returns node instead of newParent
leftRotationReturnsNode(node) ==
    IF node = NIL \/ node = CRASH THEN CRASH
    ELSE IF node.right = NIL THEN CRASH
    ELSE LET newParent == node.right
         IN updateHeight([node EXCEPT !.right = newParent.left])

leftRotation(node) ==
    IF node = NIL \/ node = CRASH THEN CRASH
    ELSE IF node.right = NIL THEN CRASH
    ELSE LET newParent == node.right
             n1 == updateHeight([node EXCEPT !.right = newParent.left])
         IN updateHeight([newParent EXCEPT !.left = n1])

\* rightRotation that recomputes newParent before node
rightRotationParentFirst(node) ==
    IF node = NIL \/ node = CRASH THEN CRASH
    ELSE IF node.left = NIL THEN CRASH
    ELSE LET newParent == node.left
             n1 == [node EXCEPT !.left = newParent.right]
             p1 == updateHeight([newParent EXCEPT !.right = n1])
         IN [p1 EXCEPT !.right = updateHeight(n1)]

rightRotation(node) ==
    IF node = NIL \/ node = CRASH THEN CRASH
    ELSE IF node.left = NIL THEN CRASH
    ELSE LET newParent == node.left
             n1 == updateHeight([node EXCEPT !.left = newParent.right])
         IN updateHeight([newParent EXCEPT !.right = n1])

leftRightRotation(node) ==
    LET l == leftRotation(node.left)
    IN IF l = CRASH THEN CRASH ELSE rightRotation([node EXCEPT !.left = l])

rightLeftRotation(node) ==
    LET r == rightRotation(node.right)
    IN IF r = CRASH THEN CRASH ELSE leftRotation([node EXCEPT !.right = r])

\* checkBalanceAndUpdate without the elbow cases: always a single rotation
checkBalanceAndUpdateStickOnly(node) ==
    IF node.balanceFactor = -2
    THEN IF node.left = NIL THEN CRASH ELSE rightRotation(node)
    ELSE IF node.balanceFactor = 2
    THEN IF node.right = NIL THEN CRASH ELSE leftRotation(node)
    ELSE node

\* checkBalanceAndUpdate without the right-heavy branch
checkBalanceAndUpdateLeftHeavyOnly(node) ==
    IF node.balanceFactor = -2
    THEN IF node.left = NIL THEN CRASH
         ELSE IF node.left.balanceFactor <= 0 THEN rightRotation(node)
         ELSE leftRightRotation(node)
    ELSE node

checkBalanceAndUpdate(node) ==
    IF node.balanceFactor = -2
    THEN IF node.left = NIL THEN CRASH
         ELSE IF node.left.balanceFactor <= 0 THEN rightRotation(node)
         ELSE leftRightRotation(node)
    ELSE IF node.balanceFactor = 2
    THEN IF node.right = NIL THEN CRASH
         ELSE IF node.right.balanceFactor >= 0 THEN leftRotation(node)
         ELSE rightLeftRotation(node)
    ELSE node

RECURSIVE DFSInsertHelper(_, _)
DFSInsertHelper(element, node) ==
    IF node = NIL THEN Node(element)
    ELSE IF element > node.data
    THEN LET r0 == DFSInsertHelper(element, node.right)
             r1 == IF r0 = CRASH THEN CRASH ELSE checkBalanceAndUpdate(updateHeight(r0))
         IN IF r1 = CRASH THEN CRASH
            ELSE checkBalanceAndUpdate(updateHeight([node EXCEPT !.right = r1]))
    ELSE LET l0 == DFSInsertHelper(element, node.left)
             l1 == IF l0 = CRASH THEN CRASH ELSE checkBalanceAndUpdate(updateHeight(l0))
         IN IF l1 = CRASH THEN CRASH
            ELSE checkBalanceAndUpdate(updateHeight([node EXCEPT !.left = l1]))

\* ------------------------------------------------------- remove helpers
\* A node pointer inside the tree is the path of child links leading to it.
NoPath == <<"nullptr">>

RECURSIVE NodeAt(_, _)
NodeAt(node, path) ==
    IF path = <<>> THEN node
    ELSE IF Head(path) = "L" THEN NodeAt(node.left, Tail(path))
    ELSE NodeAt(node.right, Tail(path))

\* p->data = value for the node p at `path`
RECURSIVE SetData(_, _, _)
SetData(node, path, value) ==
    IF path = <<>> THEN [node EXCEPT !.data = value]
    ELSE IF Head(path) = "L"
    THEN [node EXCEPT !.left = SetData(node.left, Tail(path), value)]
    ELSE [node EXCEPT !.right = SetData(node.right, Tail(path), value)]

RECURSIVE retrieveNodeDFS(_, _)
retrieveNodeDFS(element, node) ==
    IF node = NIL THEN NoPath
    ELSE IF node.data = element THEN <<>>
    ELSE IF element > node.data
    THEN LET value == retrieveNodeDFS(element, node.right)
         IN IF value = NoPath THEN NoPath ELSE <<"R">> \o value
    ELSE LET value == retrieveNodeDFS(element, node.left)
         IN IF value = NoPath THEN NoPath ELSE <<"L">> \o value

RECURSIVE retrieveFurthestRightNodeDFS(_)
retrieveFurthestRightNodeDFS(node) ==
    IF node.right = NIL /\ node.left = NIL THEN <<>>
    ELSE IF node.right = NIL /\ node.left # NIL
    THEN <<"L">> \o retrieveFurthestRightNodeDFS(node.left)
    ELSE <<"R">> \o retrieveFurthestRightNodeDFS(node.right)

RECURSIVE retrieveFurthestLeftNodeDFS(_)
retrieveFurthestLeftNodeDFS(node) ==
    IF node.left = NIL /\ node.right = NIL THEN <<>>
    ELSE IF node.left = NIL /\ node.right # NIL
    THEN <<"R">> \o retrieveFurthestLeftNodeDFS(node.right)
    ELSE <<"L">> \o retrieveFurthestLeftNodeDFS(node.left)

\* Returns the subtree after the call and the number of nodes it deleted
\* (each deletion is one treeSize--).
RECURSIVE DFSRemoveHelper(_, _)
DFSRemoveHelper(element, node) ==
    IF node = NIL THEN [node |-> NIL, freed |-> 0]
    ELSE LET l == DFSRemoveHelper(element, node.left)
             r == DFSRemoveHelper(element, node.right)
             n == [node EXCEPT !.left = l.node, !.right = r.node]
             c == l.freed + r.freed
         IN IF n.left # NIL /\ n.left.data = element
            THEN [node |-> [n EXCEPT !.left = NIL], freed |-> c + 1]
            ELSE IF n.right # NIL /\ n.right.data = element
            THEN [node |-> [n EXCEPT !.right = NIL], freed |-> c + 1]
            ELSE [node |-> n, freed |-> c]

\* Node *temp = checkBalanceAndUpdate(node); the result is dropped, so the
\* caller's pointer still names the old `node`, which a rotation has made a
\* child of the returned parent.
discardedBalance(node) ==
    LET temp == checkBalanceAndUpdate(node)
    IN IF temp = CRASH THEN CRASH
       ELSE IF node.balanceFactor = -2 THEN temp.right
       ELSE IF node.balanceFactor = 2 THEN temp.left
       ELSE temp

removeHelper(element, node) ==
    LET foundPath == retrieveNodeDFS(element, node)
    IN IF foundPath = NoPath THEN CRASH
       ELSE LET foundNode == NodeAt(node, foundPath)
                swapPath ==
                    IF foundNode.left = NIL /\ foundNode.right = NIL
                    THEN foundPath
                    ELSE IF foundNode.left = NIL
                    THEN foundPath \o <<"R">> \o retrieveFurthestLeftNodeDFS(foundNode.right)
                    ELSE IF foundNode.right = NIL
                    THEN foundPath \o <<"L">> \o retrieveFurthestRightNodeDFS(foundNode.left)
                    ELSE foundPath \o <<"R">> \o retrieveFurthestLeftNodeDFS(foundNode.right)
                temp == NodeAt(node, swapPath).data
                swapped == SetData(SetData(node, swapPath, foundNode.data), foundPath, temp)
                removed == DFSRemoveHelper(NodeAt(swapped, swapPath).data, swapped)
                after == discardedBalance(removed.node)
            IN IF after = CRASH THEN CRASH
               ELSE [node |-> after, freed |-> removed.freed]

RECURSIVE binarySearchDFS(_, _)
binarySearchDFS(node, src) ==
    IF node = NIL THEN FALSE
    ELSE IF node.data = src THEN TRUE
    ELSE IF src > node.data THEN binarySearchDFS(node.right, src)
    ELSE binarySearchDFS(node.left, src)

\* int calculateHeightOfTree(Node *node) const: the difference of the
\* children's cached heights
calculateHeightOfTree(node) ==
    cachedHeight(node.right) - cachedHeight(node.left)

\* what each traversal writes to std::cout, as the sequence of keys
RECURSIVE inorderTreeTraversalPrint(_)
inorderTreeTraversalPrint(node) ==
    IF node = NIL THEN <<>>
    ELSE inorderTreeTraversalPrint(node.left) \o <<node.data>>
         \o inorderTreeTraversalPrint(node.right)

preorderTreeTraversalPrint(node) ==
    IF node = NIL THEN <<>>
    ELSE <<node.data>> \o inorderTreeTraversalPrint(node.left)
         \o inorderTreeTraversalPrint(node.right)

postorderTreeTraversalPrint(node) ==
    IF node = NIL THEN <<>>
    ELSE inorderTreeTraversalPrint(node.left)
         \o inorderTreeTraversalPrint(node.right) \o <<node.data>>

\* if (p) queue.push(q)
pushIf(p, q) == IF p # NIL THEN <<q>> ELSE <<>>

\* equals' while loop over the two std::queue<Node *>; a queue is the
\* sequence of the nodes its pointers name, NIL for a null pointer.
\* queueOther receives thisNode->left where other's left child exists.
RECURSIVE equalsLoop(_, _)
equalsLoop(queueThis, queueOther) ==
    IF queueThis = <<>> THEN Returns(queueOther = <<>>)
    ELSE IF queueOther = <<>> THEN Returns(FALSE)
    ELSE LET thisNode == Head(queueThis)
             otherNode == Head(queueOther)
         IN IF otherNode = NIL THEN CRASH
            ELSE IF thisNode.data # otherNode.data THEN Returns(FALSE)
            ELSE equalsLoop(
                    Tail(queueThis) \o pushIf(thisNode.left, thisNode.left)
                                   \o pushIf(thisNode.right, thisNode.right),
                    Tail(queueOther) \o pushIf(otherNode.left, thisNode.left)
                                    \o pushIf(otherNode.right, otherNode.right))

\* operator='s loops after clear(), reading queue.back(x) as queue.push(x),
\* insert(x, "BFS") as insert(x) and currNode->left.data as currNode->left.
\* `size` is never decremented, so the inner loop runs until front() is
\* called on the empty queue.  nodeQueue is the std::queue<Node *> queue,
\* t is [root, treeSize] of this tree.
RECURSIVE copyLoop(_, _)
copyLoop(nodeQueue, t) ==
    IF nodeQueue = <<>> THEN [root |-> t.root, treeSize |-> t.treeSize, fault |-> "empty_front"]
    ELSE LET currNode == Head(nodeQueue)
         IN IF currNode = NIL
            THEN [root |-> t.root, treeSize |-> t.treeSize, fault |-> "null_deref"]
            ELSE LET r == IF t.root = NIL THEN Node(currNode.data)
                          ELSE DFSInsertHelper(currNode.data, t.root)
                 IN IF r = CRASH
                    THEN [root |-> t.root, treeSize |-> t.treeSize, fault |-> "null_deref"]
                    ELSE copyLoop(Tail(nodeQueue) \o pushIf(currNode.left, currNode.left)
                                                  \o pushIf(currNode.right, currNode.right),
                                  [root |-> r, treeSize |-> t.treeSize + 1])

\* ------------------------------------------------------------ observers
RECURSIVE InOrder(_)
InOrder(node) ==
    IF node = NIL THEN <<>>
    ELSE InOrder(node.left) \o <<node.data>> \o InOrder(node.right)

RECURSIVE CountNodes(_)
CountNodes(node) ==
    IF node = NIL THEN 0 ELSE 1 + CountNodes(node.left) + CountNodes(node.right)

RECURSIVE KeySet(_)
KeySet(node) ==
    IF node = NIL THEN {}
    ELSE KeySet(node.left) \cup {node.data} \cup KeySet(node.right)

\* height of the actual subtree, nil = -1
RECURSIVE ActualHeight(_)
ActualHeight(node) ==
    IF node = NIL THEN -1
    ELSE 1 + Max(ActualHeight(node.left), ActualHeight(node.right))

ActualBalance(node) == ActualHeight(node.right) - ActualHeight(node.left)

RECURSIVE AllBalanced(_)
AllBalanced(node) ==
    IF node = NIL THEN TRUE
    ELSE /\ ActualBalance(node) \in {-1, 0, 1}
         /\ AllBalanced(node.left)
         /\ AllBalanced(node.right)

StrictlyAscending(seq) ==
    \A i \in 1..(Len(seq) - 1) : seq[i] < seq[i + 1]

\* every key is held by exactly one node
DistinctKeys(node) == CountNodes(node) = Cardinality(KeySet(node))

\* the last public call returned to its caller
Returned == fault = "none"

\* bool isEmpty() const { return !root; }
isEmpty == root = NIL

\* int size() const { return treeSize; }
size == treeSize

\* ---------------------------------------------------------------- actions
Snapshot == [root |-> root, treeSize |-> treeSize, rootFreed |-> rootFreed]

Call(op, key, ret) == [op |-> op, key |-> key, ret |-> ret]

ClearError == "Error in clear: elements still exist on the heap... please check"

Init ==
    /\ root = NIL
    /\ treeSize = 0
    /\ rootFreed = FALSE
    /\ fault = "none"
    /\ lastOp = Call("new", 0, FALSE)
    /\ pre = [root |-> NIL, treeSize |-> 0, rootFreed |-> FALSE]
    /\ log = <<>>
    /\ other = [root |-> NIL, treeSize |-> 0]
    /\ stack = [head_ |-> <<>>, size_ |-> 0]
    /\ pushed = <<>>
    /\ queue = [head_ |-> <<>>, tail_ |-> "nullptr", size_ |-> 0]
    /\ queued = <<>>
    /\ heap = [minHeap |-> [i \in 0..(HeapCapacity - 1) |-> 0],
               size_ |-> 0, capacity_ |-> HeapCapacity]
    /\ table = [i \in 0..(buckets - 1) |-> <<>>]
    /\ list = [head_ |-> 0, tail_ |-> 0, size_ |-> 0, nodes |-> <<>>]
    /\ obj = [head_ |-> 0, tail_ |-> 0, size_ |-> 0, nodes |-> <<>>]
    /\ trie = [root |-> [children |-> <<>>, endOfWord |-> FALSE], wordCount_ |-> 0]
    /\ trieCalls = 0

\* void insert(const T &arg)
InsertCall(arg) ==
    /\ fault = "none"
    /\ UNCHANGED notTree
    /\ lastOp' = Call("insert", arg, FALSE)
    /\ pre' = Snapshot
    /\ log' = IF log # Overflow /\ Len(log) < MaxLog THEN Append(log, arg) ELSE Overflow
    /\ IF root = NIL
       THEN /\ root' = Node(arg)
            /\ treeSize' = treeSize + 1
            /\ UNCHANGED <<rootFreed, fault>>
       ELSE IF rootFreed
       THEN /\ fault' = "use_after_free"
            /\ UNCHANGED <<root, treeSize, rootFreed>>
       ELSE LET r == DFSInsertHelper(arg, root)
            IN IF r = CRASH
               THEN /\ fault' = "null_deref"
                    /\ UNCHANGED <<root, treeSize, rootFreed>>
               ELSE /\ root' = r
                    /\ treeSize' = treeSize + 1
                    /\ UNCHANGED <<rootFreed, fault>>

Insert(arg) ==
    /\ treeSize < MaxNodes
    /\ InsertCall(arg)

\* insert of a key the tree does not hold yet
InsertDistinct(arg) ==
    /\ root = NIL \/ (~rootFreed /\ arg \notin KeySet(root))
    /\ InsertCall(arg)

Remove(arg) ==
    /\ fault = "none"
    /\ UNCHANGED notTree
    /\ lastOp' = Call("remove", arg, FALSE)
    /\ pre' = Snapshot
    /\ log' = Overflow
    /\ IF root = NIL
       THEN UNCHANGED <<root, treeSize, rootFreed, fault>>
       ELSE IF treeSize = 1
       THEN \* delete root; treeSize--;  (root keeps pointing to the node)
            IF rootFreed
            THEN /\ fault' = "use_after_free"
                 /\ UNCHANGED <<root, treeSize, rootFreed>>
            ELSE /\ rootFreed' = TRUE
                 /\ treeSize' = treeSize - 1
                 /\ UNCHANGED <<root, fault>>
       ELSE IF rootFreed
       THEN /\ fault' = "use_after_free"
            /\ UNCHANGED <<root, treeSize, rootFreed>>
       ELSE LET r == removeHelper(arg, root)
            IN IF r = CRASH
               THEN /\ fault' = "null_deref"
                    /\ UNCHANGED <<root, treeSize, rootFreed>>
               ELSE \* DFSRemoveHelper writes through each pointer it has
                    \* just deleted: the stores land in the freed block, or
                    \* the run stops there.
                    \E stores \in {"land", "stop"} :
                        IF stores = "stop" /\ r.freed > 0
                        THEN /\ fault' = "use_after_free"
                             /\ UNCHANGED <<root, treeSize, rootFreed>>
                        ELSE /\ root' = r.node
                             /\ treeSize' = treeSize - r.freed
                             /\ UNCHANGED <<rootFreed, fault>>

\* contains(element) = binarySearch(element, "DFS")
binarySearch(src) ==
    IF src = 0 \/ root = NIL THEN FALSE ELSE binarySearchDFS(root, src)

Contains(element) ==
    /\ fault = "none"
    /\ UNCHANGED notTree
    /\ pre' = Snapshot
    /\ UNCHANGED <<root, treeSize, rootFreed, log>>
    /\ IF element # 0 /\ root # NIL /\ rootFreed
       THEN /\ fault' = "use_after_free"
            /\ lastOp' = Call("contains", element, FALSE)
       ELSE /\ lastOp' = Call("contains", element, binarySearch(element))
            /\ UNCHANGED fault

isBalanced ==
    IF root = NIL THEN TRUE ELSE calculateHeightOfTree(root) = 0

IsBalanced ==
    /\ fault = "none"
    /\ UNCHANGED notTree
    /\ pre' = Snapshot
    /\ UNCHANGED <<root, treeSize, rootFreed, log>>
    /\ IF root # NIL /\ rootFreed
       THEN /\ fault' = "use_after_free"
            /\ lastOp' = Call("isBalanced", 0, FALSE)
       ELSE /\ lastOp' = Call("isBalanced", 0, isBalanced)
            /\ UNCHANGED fault

\* clear(), also the body of ~AVLBinaryTree().  clearTree deletes every
\* node post-order and stores to each node after deleting it; it changes
\* neither treeSize nor root.
Clear ==
    /\ fault = "none"
    /\ UNCHANGED notTree
    /\ pre' = Snapshot
    /\ log' = Overflow
    /\ UNCHANGED <<root, treeSize>>
    /\ IF root = NIL
       THEN /\ lastOp' = Call("clear", 0, IF treeSize # 0 THEN Throws(ClearError)
                                                          ELSE Returns("void"))
            /\ UNCHANGED <<rootFreed, fault>>
       ELSE IF rootFreed
       THEN /\ fault' = "use_after_free"
            /\ lastOp' = Call("clear", 0, FALSE)
            /\ UNCHANGED rootFreed
       ELSE \E stores \in {"land", "stop"} :
               IF stores = "stop"
               THEN /\ fault' = "use_after_free"
                    /\ lastOp' = Call("clear", 0, FALSE)
                    /\ UNCHANGED rootFreed
               ELSE /\ rootFreed' = TRUE
                    /\ lastOp' = Call("clear", 0, IF treeSize # 0 THEN Throws(ClearError)
                                                                  ELSE Returns("void"))
                    /\ UNCHANGED fault

PrintTypes == {"Pre", "Post", "In", "Level"}

\* print(os, type): the keys the traversal writes between "[" and "]"
PrintTree(type) ==
    /\ fault = "none"
    /\ UNCHANGED notTree
    /\ pre' = Snapshot
    /\ UNCHANGED <<root, treeSize, rootFreed, log>>
    /\ IF root # NIL /\ rootFreed
       THEN /\ fault' = "use_after_free"
            /\ lastOp' = Call("print", type, FALSE)
       ELSE /\ UNCHANGED fault
            /\ lastOp' = Call("print", type,
                    IF root = NIL THEN <<>>
                    ELSE IF type = "Pre" THEN preorderTreeTraversalPrint(root)
                    ELSE IF type = "Post" THEN postorderTreeTraversalPrint(root)
                    ELSE IF type = "In" THEN inorderTreeTraversalPrint(root)
                    ELSE <<>>)

Next ==
    \/ \E k \in Keys :
        \/ Insert(k)
        \/ Remove(k)
        \/ Contains(k)
    \/ IsBalanced
    \/ Clear
    \/ \E type \in PrintTypes : PrintTree(type)

Spec == Init /\ [][Next]_vars

\* ---------------------------------------------------- actions, two trees
\* insert while this tree has fewer than MaxOther nodes
InsertThis(arg) ==
    /\ treeSize < MaxOther
    /\ InsertCall(arg)

\* other.insert(arg)
InsertOther(arg) ==
    /\ fault = "none"
    /\ other.treeSize < MaxOther
    /\ LET r == IF other.root = NIL THEN Node(arg)
                 ELSE DFSInsertHelper(arg, other.root)
       IN /\ r # CRASH
          /\ other' = [root |-> r, treeSize |-> other.treeSize + 1]
    /\ lastOp' = Call("other.insert", arg, FALSE)
    /\ UNCHANGED <<root, treeSize, rootFreed, fault, pre, log, notAVL>>

\* equals(other)
Equals ==
    /\ fault = "none"
    /\ pre' = Snapshot
    /\ UNCHANGED <<root, treeSize, rootFreed, log, other, notAVL>>
    /\ IF root = NIL \/ size # other.treeSize
       THEN /\ lastOp' = Call("equals", 0, FALSE)
            /\ UNCHANGED fault
       ELSE IF rootFreed
       THEN /\ fault' = "use_after_free"
            /\ lastOp' = Call("equals", 0, FALSE)
       ELSE LET r == equalsLoop(<<root>>, <<other.root>>)
            IN IF r = CRASH
               THEN /\ fault' = "null_deref"
                    /\ lastOp' = Call("equals", 0, FALSE)
               ELSE /\ lastOp' = Call("equals", 0, r.value)
                    /\ UNCHANGED fault

\* *this = other, also the body of the copy constructor (on an empty tree)
Assign ==
    /\ fault = "none"
    /\ pre' = Snapshot
    /\ log' = Overflow
    /\ UNCHANGED <<other, notAVL>>
    /\ IF root # NIL /\ rootFreed
       THEN /\ fault' = "use_after_free"
            /\ lastOp' = Call("operator=", 0, FALSE)
            /\ UNCHANGED <<root, treeSize, rootFreed>>
       ELSE \E stores \in {"land", "stop"} :
               IF root # NIL /\ stores = "stop"
               THEN /\ fault' = "use_after_free"
                    /\ lastOp' = Call("operator=", 0, FALSE)
                    /\ UNCHANGED <<root, treeSize, rootFreed>>
               ELSE IF treeSize # 0
               THEN \* clear() throws
                    /\ rootFreed' = (root # NIL)
                    /\ lastOp' = Call("operator=", 0, Throws(ClearError))
                    /\ UNCHANGED <<root, treeSize, fault>>
               ELSE IF root # NIL
               THEN \* clear() left root dangling; the first insert reads it
                    /\ rootFreed' = TRUE
                    /\ fault' = IF other.root = NIL THEN "null_deref"
                                ELSE "use_after_free"
                    /\ lastOp' = Call("operator=", 0, FALSE)
                    /\ UNCHANGED <<root, treeSize>>
               ELSE LET t == copyLoop(<<other.root>>, [root |-> NIL, treeSize |-> 0])
                    IN /\ root' = t.root
                       /\ treeSize' = t.treeSize
                       /\ fault' = t.fault
                       /\ lastOp' = Call("operator=", 0, FALSE)
                       /\ UNCHANGED rootFreed

NextTwo ==
    \/ \E k \in Keys :
        \/ InsertThis(k)
        \/ InsertOther(k)
    \/ Equals
    \/ Assign

SpecTwo == Init /\ [][NextTwo]_vars

\* insert-only runs over the distinct keys 1..MaxAsc
NextIns == \E k \in 1..MaxAsc : InsertDistinct(k)

SpecIns == Init /\ [][NextIns]_vars

\* ---------------------------------------------------- actions, rotations
\* every node of the subtree of `node`, as the path of child links to it
RECURSIVE NodePaths(_)
NodePaths(node) ==
    IF node = NIL THEN {}
    ELSE {<<>>} \cup {<<"L">> \o p : p \in NodePaths(node.left)}
                \cup {<<"R">> \o p : p \in NodePaths(node.right)}

\* a call of a rotation on the node at `path`, which has the child the
\* rotation lifts; lastOp keeps the subtree the call was given and the
\* subtree headed by the pointer it returned
Rotate(op, path) ==
    /\ fault = "none"
    /\ root # NIL
    /\ ~rootFreed
    /\ path \in NodePaths(root)
    /\ LET node == NodeAt(root, path)
       IN /\ IF op = "leftRotation" THEN node.right # NIL ELSE node.left # NIL
          /\ lastOp' = Call(op, node,
                            Returns(IF op = "leftRotation" THEN leftRotation(node)
                                    ELSE rightRotation(node)))
    /\ pre' = Snapshot
    /\ UNCHANGED <<root, treeSize, rootFreed, fault, log, notTree>>

RotateLeft(path) == Rotate("leftRotation", path)

RotateRight(path) == Rotate("rightRotation", path)

\* the paths of the trees of at most MaxNodes nodes
RECURSIVE PathsUpTo(_)
PathsUpTo(n) ==
    IF n = 0 THEN {<<>>}
    ELSE {<<>>} \cup {<<d>> \o p : d \in {"L", "R"}, p \in PathsUpTo(n - 1)}

NextRot ==
    \/ \E k \in 1..MaxOther :
        \/ Insert(k)
        \/ Remove(k)
    \/ \E path \in PathsUpTo(MaxNodes - 1) :
        \/ RotateLeft(path)
        \/ RotateRight(path)

SpecRot == Init /\ [][NextRot]_vars

\* ----------------------------------------------------------- Stack<T>
StackTopError == "Error: There is no head pointer for Stack"
StackClearError == "Error nodes from the stack still exist in heap memory."

RemoveLast(seq) == IF seq = <<>> THEN <<>> ELSE SubSeq(seq, 1, Len(seq) - 1)

\* push(dataArg): on a non-empty stack the new node points to the old
\* head, and head_ is left as it was
Push(dataArg) ==
    /\ fault = "none"
    /\ stack.size_ < MaxStack
    /\ stack' = [head_ |-> IF stack.head_ = <<>> THEN <<dataArg>> ELSE stack.head_,
                 size_ |-> stack.size_ + 1]
    /\ pushed' = Append(pushed, dataArg)
    /\ lastOp' = Call("push", dataArg, FALSE)
    /\ UNCHANGED <<fault, notStack>>

\* pop(): stores to oldHead->next after delete oldHead
Pop ==
    /\ fault = "none"
    /\ lastOp' = Call("pop", 0, FALSE)
    /\ pushed' = RemoveLast(pushed)
    /\ UNCHANGED notStack
    /\ IF stack.head_ = <<>>
       THEN UNCHANGED <<stack, fault>>
       ELSE \E stores \in {"land", "stop"} :
               IF stores = "stop"
               THEN /\ fault' = "use_after_free"
                    /\ UNCHANGED stack
               ELSE /\ stack' = [head_ |-> Tail(stack.head_), size_ |-> stack.size_ - 1]
                    /\ UNCHANGED fault

\* T &top()
Top ==
    /\ fault = "none"
    /\ lastOp' = Call("top", 0, IF stack.head_ = <<>> THEN Throws(StackTopError)
                                 ELSE Returns(Head(stack.head_)))
    /\ UNCHANGED <<stack, pushed, fault, notStack>>

\* Stack::clear(): pop() while head_, then the size_ check
ClearStack ==
    /\ fault = "none"
    /\ pushed' = <<>>
    /\ UNCHANGED notStack
    /\ \E stores \in {"land", "stop"} :
          IF stores = "stop" /\ stack.head_ # <<>>
          THEN /\ fault' = "use_after_free"
               /\ lastOp' = Call("stack.clear", 0, FALSE)
               /\ UNCHANGED stack
          ELSE /\ stack' = [head_ |-> <<>>, size_ |-> stack.size_ - Len(stack.head_)]
               /\ lastOp' = Call("stack.clear", 0,
                                 IF stack'.size_ # 0 THEN Throws(StackClearError)
                                 ELSE Returns("void"))
               /\ UNCHANGED fault

NextStack ==
    \/ \E k \in Keys : Push(k)
    \/ Pop
    \/ Top
    \/ ClearStack

SpecStack == Init /\ [][NextStack]_vars

\* -------------------------------------------------------- QueueADT<T>
FrontError == "front() called on empty LinkedList"
BackError == "back() called on empty LinkedList"
QueueClearError == "Error in clear: elements still exist on the heap... please check"

\* enqueue(elem)
Enqueue(elem) ==
    /\ fault = "none"
    /\ queue.size_ < MaxQueue
    /\ queued' = Append(queued, elem)
    /\ lastOp' = Call("enqueue", elem, FALSE)
    /\ UNCHANGED notQueue
    /\ IF queue.head_ = <<>>
       THEN /\ queue' = [head_ |-> <<elem>>, tail_ |-> "last", size_ |-> queue.size_ + 1]
            /\ UNCHANGED fault
       ELSE IF queue.tail_ = "last"
       THEN /\ queue' = [queue EXCEPT !.head_ = Append(queue.head_, elem),
                                      !.size_ = queue.size_ + 1]
            /\ UNCHANGED fault
       ELSE /\ fault' = IF queue.tail_ = "nullptr" THEN "null_deref" ELSE "use_after_free"
            /\ UNCHANGED queue

\* dequeue(): stores to oldHead->next and oldHead->prev after delete oldHead;
\* tail_ is left as it was
Dequeue ==
    /\ fault = "none"
    /\ lastOp' = Call("dequeue", 0, FALSE)
    /\ queued' = IF queued = <<>> THEN <<>> ELSE Tail(queued)
    /\ UNCHANGED notQueue
    /\ IF queue.head_ = <<>>
       THEN UNCHANGED <<queue, fault>>
       ELSE \E stores \in {"land", "stop"} :
               IF stores = "stop"
               THEN /\ fault' = "use_after_free"
                    /\ UNCHANGED queue
               ELSE /\ queue' = [head_ |-> Tail(queue.head_),
                                 tail_ |-> IF Len(queue.head_) = 1 /\ queue.tail_ = "last"
                                           THEN "freed" ELSE queue.tail_,
                                 size_ |-> queue.size_ - 1]
                    /\ UNCHANGED fault

\* T &front()
Front ==
    /\ fault = "none"
    /\ lastOp' = Call("front", 0, IF queue.head_ = <<>> THEN Throws(FrontError)
                                   ELSE Returns(Head(queue.head_)))
    /\ UNCHANGED <<queue, queued, fault, notQueue>>

\* T &back(): through a tail_ that names a deleted node it reads freed
\* memory, which yields some value or stops the run
Back ==
    /\ fault = "none"
    /\ UNCHANGED <<queue, queued, notQueue>>
    /\ IF queue.tail_ = "nullptr"
       THEN /\ lastOp' = Call("back", 0, Throws(BackError))
            /\ UNCHANGED fault
       ELSE IF queue.tail_ = "last" /\ queue.head_ # <<>>
       THEN /\ lastOp' = Call("back", 0, Returns(queue.head_[Len(queue.head_)]))
            /\ UNCHANGED fault
       ELSE \/ \E garbage \in Keys :
                /\ lastOp' = Call("back", 0, Returns(garbage))
                /\ UNCHANGED fault
            \/ /\ lastOp' = Call("back", 0, FALSE)
               /\ fault' = "use_after_free"

\* QueueADT::clear(): dequeue() while head_, then the size_ check
ClearQueue ==
    /\ fault = "none"
    /\ queued' = <<>>
    /\ UNCHANGED notQueue
    /\ \E stores \in {"land", "stop"} :
          IF stores = "stop" /\ queue.head_ # <<>>
          THEN /\ fault' = "use_after_free"
               /\ lastOp' = Call("queue.clear", 0, FALSE)
               /\ UNCHANGED queue
          ELSE /\ queue' = [head_ |-> <<>>,
                            tail_ |-> IF queue.head_ # <<>> /\ queue.tail_ = "last"
                                      THEN "freed" ELSE queue.tail_,
                            size_ |-> queue.size_ - Len(queue.head_)]
               /\ lastOp' = Call("queue.clear", 0,
                                 IF queue'.size_ # 0 THEN Throws(QueueClearError)
                                 ELSE Returns("void"))
               /\ UNCHANGED fault

NextQueue ==
    \/ \E k \in Keys : Enqueue(k)
    \/ Dequeue
    \/ Front
    \/ Back
    \/ ClearQueue

SpecQueue == Init /\ [][NextQueue]_vars

\* ---------------------------------------------------- PriorityQueueADT<T>
PeekError == "Error: Cannot peek empty array. Please check where peek is called."
RemoveMinError == "Error: Trying to remove an element on an empty heap."

\* std::swap(minHeap[i], minHeap[j])
swap(a, i, j) == [a EXCEPT ![i] = a[j], ![j] = a[i]]

\* _isLeaf(index): no child of index is within size_
isLeaf(size_, index) == index * 2 > size_

\* _minChild(index)
minChild(a, index) ==
    LET leftChild == a[index * 2]
        rightChild == a[index * 2 + 1]
    IN IF leftChild < rightChild THEN index * 2 ELSE index * 2 + 1

\* _heapifyUp(index): the test reads the slot before index, the swap is
\* with the parent
RECURSIVE heapifyUp(_, _)
heapifyUp(a, index) ==
    IF index > 1 /\ a[index] < a[index - 1]
    THEN heapifyUp(swap(a, index, index \div 2), index \div 2)
    ELSE a

\* _heapifyDown(index)
RECURSIVE heapifyDown(_, _, _)
heapifyDown(a, size_, index) ==
    IF ~isLeaf(size_, index)
    THEN LET minChildIndex == minChild(a, index)
         IN IF a[index] > a[minChildIndex]
            THEN heapifyDown(swap(a, index, minChildIndex), size_, minChildIndex)
            ELSE a
    ELSE a

\* insert(element).  minHeap[++size_] leaves the array when size_ is
\* HeapCapacity - 1, before size_ == capacity_ can call _increaseCapacity.
HeapInsert(element) ==
    /\ fault = "none"
    /\ heap.size_ < MaxHeap
    /\ lastOp' = Call("heap.insert", element, FALSE)
    /\ UNCHANGED notHeap
    /\ IF heap.size_ + 1 > HeapCapacity - 1
       THEN /\ fault' = "out_of_bounds"
            /\ UNCHANGED heap
       ELSE /\ heap' = [heap EXCEPT
                    !.minHeap = heapifyUp([heap.minHeap EXCEPT ![heap.size_ + 1] = element],
                                          heap.size_ + 1),
                    !.size_ = heap.size_ + 1]
            /\ UNCHANGED fault

\* removeMin without the size_ == 0 test
RemoveMinUnchecked ==
    /\ fault = "none"
    /\ UNCHANGED <<fault, notHeap>>
    /\ lastOp' = Call("removeMin", 0, Returns("void"))
    /\ heap' = [heap EXCEPT !.size_ = heap.size_ - 1]

\* removeMin()
RemoveMin ==
    /\ fault = "none"
    /\ UNCHANGED <<fault, notHeap>>
    /\ IF heap.size_ = 0
       THEN /\ lastOp' = Call("removeMin", 0, Throws(RemoveMinError))
            /\ UNCHANGED heap
       ELSE /\ lastOp' = Call("removeMin", 0, Returns("void"))
            /\ heap' = [heap EXCEPT
                    !.minHeap = heapifyDown([heap.minHeap EXCEPT ![1] = heap.minHeap[heap.size_]],
                                            heap.size_ - 1, 1),
                    !.size_ = heap.size_ - 1]

\* T peek() const
Peek ==
    /\ fault = "none"
    /\ UNCHANGED <<heap, fault, notHeap>>
    /\ lastOp' = Call("peek", 0, IF heap.size_ < 1 THEN Throws(PeekError)
                                  ELSE Returns(heap.minHeap[1]))

NextHeap ==
    \/ \E k \in Keys : HeapInsert(k)
    \/ RemoveMin
    \/ Peek

SpecHeap == Init /\ [][NextHeap]_vars

\* ------------------------------------------------------------- HashTable
\* int hashFunction(K key): key % buckets, where % truncates toward zero
hashFunction(key) ==
    IF key >= 0 THEN key % buckets ELSE -((-key) % buckets)

\* the position in a bucket at which the loop over it finds key, 0 if it
\* reaches end(cell)
RECURSIVE findFrom(_, _, _)
findFrom(cell, key, Iter) ==
    IF Iter > Len(cell) THEN 0
    ELSE IF cell[Iter].first = key THEN Iter
    ELSE findFrom(cell, key, Iter + 1)

\* the body of insert and of add on the bucket `cell`
emplaceOrUpdate(cell, key, value) ==
    LET Iter == findFrom(cell, key, 1)
    IN IF Iter # 0 THEN [cell EXCEPT ![Iter].second = value]
       ELSE Append(cell, [first |-> key, second |-> value])

\* the body of remove and of erase on the bucket `cell`
eraseFirst(cell, key) ==
    LET Iter == findFrom(cell, key, 1)
    IN IF Iter # 0
       THEN [i \in 1..(Len(cell) - 1) |-> IF i < Iter THEN cell[i] ELSE cell[i + 1]]
       ELSE cell

TableCall(op, key, value, ret) ==
    [op |-> op, key |-> key, value |-> value, ret |-> ret]

inBounds(hashValue) == hashValue \in 0..(buckets - 1)

RECURSIVE sumSizes(_, _)
sumSizes(t, i) ==
    IF i >= buckets THEN 0 ELSE Len(t[i]) + sumSizes(t, i + 1)

\* the calls that write a pair: insert and add have the same body
Put(op, key, value) ==
    /\ fault = "none"
    /\ UNCHANGED notTable
    /\ LET hashValue == hashFunction(key)
       IN /\ \/ sumSizes(table, 0) < MaxEntries
             \/ inBounds(hashValue) /\ findFrom(table[hashValue], key, 1) # 0
          /\ IF ~inBounds(hashValue)
             THEN /\ fault' = "out_of_bounds"
                  /\ lastOp' = TableCall(op, key, value, FALSE)
                  /\ UNCHANGED table
             ELSE /\ table' = [table EXCEPT
                          ![hashValue] = emplaceOrUpdate(table[hashValue], key, value)]
                  /\ lastOp' = TableCall(op, key, value, Returns("void"))
                  /\ UNCHANGED fault

\* the calls that drop a pair: remove and erase have the same body
Drop(op, key) ==
    /\ fault = "none"
    /\ UNCHANGED notTable
    /\ LET hashValue == hashFunction(key)
       IN IF ~inBounds(hashValue)
          THEN /\ fault' = "out_of_bounds"
               /\ lastOp' = TableCall(op, key, 0, FALSE)
               /\ UNCHANGED table
          ELSE /\ table' = [table EXCEPT
                       ![hashValue] = eraseFirst(table[hashValue], key)]
               /\ lastOp' = TableCall(op, key, 0, Returns("void"))
               /\ UNCHANGED fault

\* void insert(K key, V value)
TableInsert(key, value) == Put("table.insert", key, value)

\* void add(K key, V value)
TableAdd(key, value) == Put("table.add", key, value)

\* void remove(K key)
TableRemove(key) == Drop("table.remove", key)

\* void erase(K key)
TableErase(key) == Drop("table.erase", key)

\* bool containsKey(K key) const.  Its loop never advances Iter: when the
\* first pair of the bucket has another key, the only way out of the loop is
\* a return that is never reached.
ContainsKey(key) ==
    /\ fault = "none"
    /\ UNCHANGED <<table, notTable>>
    /\ LET hashValue == hashFunction(key)
       IN IF ~inBounds(hashValue)
          THEN /\ fault' = "out_of_bounds"
               /\ lastOp' = TableCall("containsKey", key, 0, FALSE)
          ELSE LET cell == table[hashValue]
               IN IF Len(cell) = 0
                  THEN /\ lastOp' = TableCall("containsKey", key, 0, Returns(FALSE))
                       /\ UNCHANGED fault
                  ELSE IF cell[1].first = key
                  THEN /\ lastOp' = TableCall("containsKey", key, 0, Returns(TRUE))
                       /\ UNCHANGED fault
                  ELSE \E loop \in {"runs forever", "taken to end"} :
                          IF loop = "runs forever"
                          THEN /\ fault' = "no_return"
                               /\ lastOp' = TableCall("containsKey", key, 0, FALSE)
                          ELSE /\ lastOp' = TableCall("containsKey", key, 0, Returns(TRUE))
                               /\ UNCHANGED fault

\* bool isEmpty() const
TableIsEmpty ==
    /\ fault = "none"
    /\ UNCHANGED <<table, fault, notTable>>
    /\ lastOp' = TableCall("table.isEmpty", 0, 0, Returns(sumSizes(table, 0) = 0))

NextTable ==
    \/ \E key \in TableKeys :
        \/ \E value \in Values :
            \/ TableInsert(key, value)
            \/ TableAdd(key, value)
        \/ TableRemove(key)
        \/ TableErase(key)
        \/ ContainsKey(key)
    \/ TableIsEmpty

SpecTable == Init /\ [][NextTable]_vars

\* ------------------------------------------------------------ LinkedList
\* LinkedList() : head_(nullptr), tail_(nullptr), size_(0)
LinkedList == [head_ |-> 0, tail_ |-> 0, size_ |-> 0, nodes |-> <<>>]

\* Node(const T &dataArg) : next(nullptr), prev(nullptr), data(dataArg)
NewNode(dataArg) == [next |-> 0, prev |-> 0, data |-> dataArg, deleted |-> FALSE]

CycleError == "Error: Cycle has been detected"
PopError == "Error in popFront: a Node still exists on the heap. Check deallocation or how you are adding nodes to list."

\* how a member function ended: it returned ("none"), threw, or faulted
Ended(lst, how) == [lst |-> lst, how |-> how]

\* what dereferencing the pointer p does in lst: "none" when it can be read
deref(lst, p) ==
    IF p = 0 THEN "null_deref"
    ELSE IF lst.nodes[p].deleted THEN "use_after_free"
    ELSE "none"

\* `*tortoise == *haire` with a null pointer is undefined: the call faults,
\* or the two addresses are compared
NullCompare == {"faults", "compares"}

\* the loop of hasCycle(); steps bounds the iterations of the model
RECURSIVE hasCycleLoop(_, _, _, _, _)
hasCycleLoop(lst, tortoise, haire, steps, onNull) ==
    IF ~(tortoise # 0 /\ haire # 0) \/ steps = 0 THEN "none"
    ELSE IF deref(lst, tortoise) # "none" THEN deref(lst, tortoise)
    ELSE IF deref(lst, haire) # "none" THEN deref(lst, haire)
    ELSE LET haireNext == lst.nodes[haire].next
             tortoise2 == lst.nodes[tortoise].next
         IN IF deref(lst, haireNext) # "none" THEN deref(lst, haireNext)
            ELSE LET haire2 == lst.nodes[haireNext].next
                     mayRead(p) == deref(lst, p) = "none"
                                   \/ (p = 0 /\ onNull = "compares")
                 IN \* *tortoise == *haire
                    IF ~mayRead(tortoise2) THEN deref(lst, tortoise2)
                    ELSE IF ~mayRead(haire2) THEN deref(lst, haire2)
                    ELSE IF tortoise2 = haire2 THEN CycleError
                    ELSE hasCycleLoop(lst, tortoise2, haire2, steps - 1, onNull)

\* void hasCycle(): "none", a fault, or the message it throws
hasCycle(lst, onNull) ==
    IF lst.size_ < 2 THEN "none"
    ELSE hasCycleLoop(lst, lst.head_, lst.head_, Len(lst.nodes), onNull)

\* the end of pushBack and of pushFront: hasCycle(); this->size_++;
checkAndCount(lst, onNull) ==
    IF hasCycle(lst, onNull) # "none" THEN Ended(lst, hasCycle(lst, onNull))
    ELSE Ended([lst EXCEPT !.size_ = lst.size_ + 1], "none")

\* void pushBack(const T &elem)
pushBack(lst, elem, onNull) ==
    LET newNode == Len(lst.nodes) + 1
        made == [lst EXCEPT !.nodes = Append(lst.nodes, NewNode(elem))]
    IN IF lst.head_ = 0
       THEN checkAndCount([made EXCEPT !.head_ = newNode, !.tail_ = newNode], onNull)
       ELSE LET oldTail == lst.tail_
            IN IF deref(lst, oldTail) # "none" THEN Ended(made, deref(lst, oldTail))
               ELSE \* oldTail = newNode changes the local pointer only
                    checkAndCount([made EXCEPT !.nodes[oldTail].next = newNode,
                                               !.nodes[newNode].prev = oldTail], onNull)

\* void pushFront(const T &elem)
pushFront(lst, elem, onNull) ==
    LET newNode == Len(lst.nodes) + 1
        made == [lst EXCEPT !.nodes = Append(lst.nodes, NewNode(elem))]
    IN IF lst.head_ = 0
       THEN checkAndCount([made EXCEPT !.head_ = newNode, !.tail_ = newNode], onNull)
       ELSE LET oldHead == lst.head_
            IN IF deref(lst, oldHead) # "none" THEN Ended(made, deref(lst, oldHead))
               ELSE \* oldHead = newNode changes the local pointer only
                    checkAndCount([made EXCEPT !.nodes[oldHead].prev = newNode,
                                               !.nodes[newNode].next = oldHead], onNull)

\* void popFront()
popFront(lst) ==
    IF lst.head_ = 0 THEN Ended(lst, "none")
    ELSE IF deref(lst, lst.head_) # "none" THEN Ended(lst, deref(lst, lst.head_))
    ELSE IF lst.nodes[lst.head_].next = 0
    THEN Ended([lst EXCEPT !.nodes[lst.head_].deleted = TRUE,
                           !.head_ = 0, !.tail_ = 0, !.size_ = lst.size_ - 1],
               IF lst.size_ - 1 # 0 THEN PopError ELSE "none")
    ELSE LET currHead == lst.head_
             newHead == lst.nodes[currHead].next
         IN IF deref(lst, newHead) # "none" THEN Ended(lst, deref(lst, newHead))
            ELSE Ended([lst EXCEPT !.head_ = newHead,
                                   !.nodes[newHead].prev = 0,
                                   !.nodes[currHead].deleted = TRUE,
                                   !.size_ = lst.size_ - 1], "none")

\* void popBack()
popBack(lst) ==
    IF lst.head_ = 0 THEN Ended(lst, "none")
    ELSE IF deref(lst, lst.tail_) # "none" THEN Ended(lst, deref(lst, lst.tail_))
    ELSE IF lst.nodes[lst.tail_].prev = 0
    THEN Ended([lst EXCEPT !.nodes[lst.tail_].deleted = TRUE,
                           !.head_ = 0, !.tail_ = 0, !.size_ = lst.size_ - 1],
               IF lst.size_ - 1 # 0 THEN PopError ELSE "none")
    ELSE \* Node *currTail = this->head_
         LET currTail == lst.head_
         IN IF deref(lst, currTail) # "none" THEN Ended(lst, deref(lst, currTail))
            ELSE LET newTail == lst.nodes[currTail].prev
                 IN IF deref(lst, newTail) # "none"
                    THEN Ended([lst EXCEPT !.tail_ = newTail], deref(lst, newTail))
                    ELSE Ended([lst EXCEPT !.tail_ = newTail,
                                           !.nodes[newTail].next = 0,
                                           !.nodes[currTail].deleted = TRUE,
                                           !.size_ = lst.size_ - 1], "none")

\* how a const member function ended, and the value it returned if it did
Read(how, value) == [how |-> how, value |-> value]

\* the loop of isSorted()
RECURSIVE isSortedLoop(_, _)
isSortedLoop(lst, currNode) ==
    IF deref(lst, currNode) # "none" THEN Read(deref(lst, currNode), FALSE)
    ELSE IF lst.nodes[currNode].next = 0 THEN Read("none", TRUE)
    ELSE LET prevNode == currNode
             nextNode == lst.nodes[currNode].next
         IN IF deref(lst, nextNode) # "none" THEN Read(deref(lst, nextNode), FALSE)
            ELSE IF ~(lst.nodes[prevNode].data < lst.nodes[nextNode].data)
            THEN Read("none", FALSE)
            ELSE isSortedLoop(lst, nextNode)

\* bool isSorted() const
isSorted(lst) ==
    IF lst.size_ < 2 THEN Read("none", TRUE) ELSE isSortedLoop(lst, lst.head_)

Faults == {"null_deref", "use_after_free", "no_return", "terminate"}

\* void clear()
RECURSIVE clear(_)
clear(lst) ==
    IF lst.head_ # 0
    THEN LET popped == popBack(lst)
         IN IF popped.how # "none" THEN popped ELSE clear(popped.lst)
    ELSE Ended(lst, IF lst.size_ # 0 THEN ClearError ELSE "none")

\* ~LinkedList(): an exception that leaves a destructor ends the program
destroy(lst) ==
    LET cleared == clear(lst)
    IN IF cleared.how \in Faults \cup {"none"} THEN cleared.how ELSE "terminate"

\* a local variable: value is computed once and Body is applied to it
Once(value, Body(_)) == CHOOSE r \in {Body(x) : x \in {value}} : TRUE

\* the loop of operator=: pushBack(cur->data) for every node of `from`,
\* starting at cur
RECURSIVE assignLoop(_, _, _, _)
assignLoop(lst, from, cur, onNull) ==
    IF cur = 0 THEN Ended(lst, "none")
    ELSE IF deref(from, cur) # "none" THEN Ended(lst, deref(from, cur))
    ELSE Once(pushBack(lst, from.nodes[cur].data, onNull),
              LAMBDA pushed1 :
                IF pushed1.how # "none" THEN pushed1
                ELSE assignLoop(pushed1.lst, from, from.nodes[cur].next, onNull))

\* LinkedList(const LinkedList<T> &other) : LinkedList() { *this = other; }
copyOf(from, onNull) == assignLoop(LinkedList, from, from.head_, onNull)

\* the local variables of merge after `copy` is made
MergeState(copyNode, objNode, copyCount, objCount, mergedList, how) ==
    [copyNode |-> copyNode, objNode |-> objNode, copyCount |-> copyCount,
     objCount |-> objCount, mergedList |-> mergedList, how |-> how]

Stopped(m, how) == [m EXCEPT !.how = how]

\* mergedList.pushBack(copyNode->data); copyNode = copyNode->next; copyCount++;
moveCopy(copy, m, onNull) ==
    Once(pushBack(m.mergedList, copy.nodes[m.copyNode].data, onNull),
         LAMBDA pushed1 :
           IF pushed1.how # "none"
           THEN [m EXCEPT !.mergedList = pushed1.lst, !.how = pushed1.how]
           ELSE [m EXCEPT !.mergedList = pushed1.lst,
                          !.copyNode = copy.nodes[m.copyNode].next,
                          !.copyCount = m.copyCount + 1])

\* mergedList.pushBack(objNode->data); objNode = objNode->next; objCount++;
moveObj(arg, m, onNull) ==
    Once(pushBack(m.mergedList, arg.nodes[m.objNode].data, onNull),
         LAMBDA pushed1 :
           IF pushed1.how # "none"
           THEN [m EXCEPT !.mergedList = pushed1.lst, !.how = pushed1.how]
           ELSE [m EXCEPT !.mergedList = pushed1.lst,
                          !.objNode = arg.nodes[m.objNode].next,
                          !.objCount = m.objCount + 1])

\* while (copyNode->data < objNode->data) { ... }
RECURSIVE takeCopy(_, _, _, _)
takeCopy(copy, arg, m, onNull) ==
    IF m.how # "none" THEN m
    ELSE IF deref(copy, m.copyNode) # "none" THEN Stopped(m, deref(copy, m.copyNode))
    ELSE IF deref(arg, m.objNode) # "none" THEN Stopped(m, deref(arg, m.objNode))
    ELSE IF copy.nodes[m.copyNode].data < arg.nodes[m.objNode].data
    THEN Once(moveCopy(copy, m, onNull), LAMBDA m1 : takeCopy(copy, arg, m1, onNull))
    ELSE m

\* while (objNode->data < copyNode->data) { ... }
RECURSIVE takeObj(_, _, _, _)
takeObj(copy, arg, m, onNull) ==
    IF m.how # "none" THEN m
    ELSE IF deref(arg, m.objNode) # "none" THEN Stopped(m, deref(arg, m.objNode))
    ELSE IF deref(copy, m.copyNode) # "none" THEN Stopped(m, deref(copy, m.copyNode))
    ELSE IF arg.nodes[m.objNode].data < copy.nodes[m.copyNode].data
    THEN Once(moveObj(arg, m, onNull), LAMBDA m1 : takeObj(copy, arg, m1, onNull))
    ELSE m

\* while (copyCount < copy.size_ && objCount < obj.size_) { ... }; a pass
\* that changes nothing is repeated forever
RECURSIVE mergeLoop(_, _, _, _)
mergeLoop(copy, arg, m, onNull) ==
    IF m.how # "none" THEN m
    ELSE IF m.copyCount < copy.size_ /\ m.objCount < arg.size_
    THEN Once(takeCopy(copy, arg, m, onNull),
              LAMBDA m1 :
                Once(takeObj(copy, arg, m1, onNull),
                     LAMBDA m2 :
                       IF m2 = m THEN Stopped(m, "no_return")
                       ELSE mergeLoop(copy, arg, m2, onNull)))
    ELSE m

\* while (copyCount < copy.size_) { ... }
RECURSIVE restOfCopy(_, _, _)
restOfCopy(copy, m, onNull) ==
    IF m.how # "none" \/ ~(m.copyCount < copy.size_) THEN m
    ELSE IF deref(copy, m.copyNode) # "none" THEN Stopped(m, deref(copy, m.copyNode))
    ELSE Once(moveCopy(copy, m, onNull), LAMBDA m1 : restOfCopy(copy, m1, onNull))

\* while (objCount < obj.size_) { ... }
RECURSIVE restOfObj(_, _, _)
restOfObj(arg, m, onNull) ==
    IF m.how # "none" \/ ~(m.objCount < arg.size_) THEN m
    ELSE IF deref(arg, m.objNode) # "none" THEN Stopped(m, deref(arg, m.objNode))
    ELSE Once(moveObj(arg, m, onNull), LAMBDA m1 : restOfObj(arg, m1, onNull))

\* how the call is left with the locals mergedList and copy: by a fault, by
\* an exception that unwinds both, or by return; mergedList is the returned
\* object itself when the copy is elided, else it is copied and destroyed
leave(copy, m, onNull, elided) ==
    IF m.how \in Faults THEN Ended(m.mergedList, m.how)
    ELSE IF m.how # "none"
    THEN Ended(m.mergedList,
               IF destroy(m.mergedList) # "none" THEN destroy(m.mergedList)
               ELSE IF destroy(copy) # "none" THEN destroy(copy)
               ELSE m.how)
    ELSE Once(IF elided THEN Ended(m.mergedList, "none") ELSE copyOf(m.mergedList, onNull),
              LAMBDA returned :
                IF returned.how # "none" THEN returned
                ELSE IF ~elided /\ destroy(m.mergedList) # "none"
                THEN Ended(returned.lst, destroy(m.mergedList))
                ELSE Ended(returned.lst, destroy(copy)))

\* the three loops of merge on the copy `made` of *this
mergeLoops(made, arg, onNull) ==
    Once(mergeLoop(made.lst, arg,
                   MergeState(made.lst.head_, arg.head_, 0, 0, LinkedList, made.how),
                   onNull),
         LAMBDA m1 :
           Once(restOfCopy(made.lst, m1, onNull),
                LAMBDA m2 : restOfObj(arg, m2, onNull)))

\* LinkedList<T> merge(const LinkedList<T> &obj) const
merge(lst, arg, onNull, elided) ==
    Once(copyOf(lst, onNull),
         LAMBDA made :
           Once(mergeLoops(made, arg, onNull),
                LAMBDA m3 : leave(made.lst, m3, onNull, elided)))

\* a call of a void member function on `list` that ended as `res` says
ListCall(op, elem, res) ==
    /\ fault = "none"
    /\ UNCHANGED <<obj, notList>>
    /\ list' = res.lst
    /\ IF res.how \in Faults
       THEN /\ fault' = res.how
            /\ lastOp' = Call(op, elem, FALSE)
       ELSE /\ UNCHANGED fault
            /\ lastOp' = Call(op, elem, IF res.how = "none" THEN Returns("void")
                                        ELSE Throws(res.how))

\* a call of a const member function on `list` that read through pointer p
\* and would return v
ListRead(op, p, v) ==
    /\ fault = "none"
    /\ UNCHANGED <<list, obj, notList>>
    /\ IF deref(list, p) # "none"
       THEN /\ fault' = deref(list, p)
            /\ lastOp' = Call(op, 0, FALSE)
       ELSE /\ UNCHANGED fault
            /\ lastOp' = Call(op, 0, Returns(v))

ListPushBack(elem) ==
    /\ Len(list.nodes) < MaxAlloc
    /\ \E onNull \in NullCompare :
          ListCall("pushBack", elem, pushBack(list, elem, onNull))

ListPushFront(elem) ==
    /\ Len(list.nodes) < MaxAlloc
    /\ \E onNull \in NullCompare :
          ListCall("pushFront", elem, pushFront(list, elem, onNull))

ListPopFront ==
    /\ fault = "none"
    /\ ListCall("popFront", 0, popFront(list))

ListPopBack ==
    /\ fault = "none"
    /\ ListCall("popBack", 0, popBack(list))

\* T &front()
ListFront ==
    IF list.head_ = 0
    THEN /\ fault = "none"
         /\ UNCHANGED <<list, obj, fault, notList>>
         /\ lastOp' = Call("list.front", 0, Throws(FrontError))
    ELSE ListRead("list.front", list.head_, list.nodes[list.head_].data)

\* T &back()
ListBack ==
    IF list.tail_ = 0
    THEN /\ fault = "none"
         /\ UNCHANGED <<list, obj, fault, notList>>
         /\ lastOp' = Call("list.back", 0, Throws(BackError))
    ELSE ListRead("list.back", list.tail_, list.nodes[list.tail_].data)

IsSorted ==
    /\ fault = "none"
    /\ UNCHANGED <<list, obj, notList>>
    /\ LET r == isSorted(list)
       IN IF r.how # "none"
          THEN /\ fault' = r.how
               /\ lastOp' = Call("isSorted", 0, FALSE)
          ELSE /\ UNCHANGED fault
               /\ lastOp' = Call("isSorted", 0, Returns(r.value))

\* pushBack on the list that is the argument of merge
ObjPushBack(elem) ==
    /\ fault = "none"
    /\ Len(obj.nodes) < MaxAlloc
    /\ UNCHANGED <<list, notList>>
    /\ \E onNull \in NullCompare :
          LET res == pushBack(obj, elem, onNull)
          IN /\ obj' = res.lst
             /\ IF res.how \in Faults
                THEN /\ fault' = res.how
                     /\ lastOp' = Call("obj.pushBack", elem, FALSE)
                ELSE /\ UNCHANGED fault
                     /\ lastOp' = Call("obj.pushBack", elem,
                                       IF res.how = "none" THEN Returns("void")
                                       ELSE Throws(res.how))

\* the data of the nodes from p on, following next
RECURSIVE ChainFrom(_, _, _)
ChainFrom(lst, p, steps) ==
    IF p = 0 \/ steps = 0 THEN <<>>
    ELSE <<lst.nodes[p].data>> \o ChainFrom(lst, lst.nodes[p].next, steps - 1)

\* what the caller sees of a returned list
Seen(lst) == [items |-> ChainFrom(lst, lst.head_, Len(lst.nodes)), size |-> lst.size_]

\* list.merge(obj)
Merge ==
    /\ fault = "none"
    /\ UNCHANGED <<list, obj, notList>>
    /\ \E onNull \in NullCompare : \E elided \in BOOLEAN :
          LET res == merge(list, obj, onNull, elided)
          IN IF res.how \in Faults
             THEN /\ fault' = res.how
                  /\ lastOp' = Call("merge", 0, FALSE)
             ELSE /\ UNCHANGED fault
                  /\ lastOp' = Call("merge", 0, IF res.how = "none"
                                                 THEN Returns(Seen(res.lst))
                                                 ELSE Throws(res.how))

NextList ==
    \/ \E elem \in Elems :
        \/ ListPushBack(elem)
        \/ ListPushFront(elem)
    \/ ListPopFront
    \/ ListPopBack
    \/ ListFront
    \/ ListBack
    \/ IsSorted

SpecList == Init /\ [][NextList]_vars

NextMerge ==
    \/ \E elem \in Elems :
        \/ ListPushBack(elem)
        \/ ObjPushBack(elem)
    \/ Merge

SpecMerge == Init /\ [][NextMerge]_vars

\* ------------------------------------------------------------ PrefixTree
\* Node() : children(), endOfWord(false)
TrieNode == [children |-> <<>>, endOfWord |-> FALSE]

\* word[index] of a std::string: the terminator at index = length()
At(word, index) == IF index < Len(word) THEN word[index + 1] ELSE NUL

\* children[ch] = child
SetChild(node, ch, child) ==
    [node EXCEPT !.children = (ch :> child) @@ node.children]

\* the loop of insert from currNode on, over the chars of word from index on:
\* the subtree of currNode afterwards, CRASH when currNode is nullptr
RECURSIVE insertFrom(_, _, _)
insertFrom(currNode, word, index) ==
    IF currNode = NIL THEN CRASH
    ELSE IF index >= Len(word) THEN [currNode EXCEPT !.endOfWord = TRUE]
    ELSE LET ch == At(word, index)
         IN Once(IF ch \in DOMAIN currNode.children
                 THEN insertFrom(currNode.children[ch], word, index + 1)
                 ELSE insertFrom(TrieNode, word, index + 1),
                 LAMBDA child : IF child = CRASH THEN CRASH
                                ELSE SetChild(currNode, ch, child))

\* void wordRemoverDFS(Node *node, const int &index, const std::string &word):
\* the subtree of node afterwards
RECURSIVE wordRemoverDFS(_, _, _)
wordRemoverDFS(node, index, word) ==
    IF node.endOfWord THEN [node EXCEPT !.endOfWord = FALSE]
    ELSE LET ch == At(word, index)
         IN IF ch \notin DOMAIN node.children THEN SetChild(node, ch, NIL)
            ELSE IF node.children[ch] = NIL THEN node
            ELSE Once(wordRemoverDFS(node.children[ch], index + 1, word),
                      LAMBDA child : SetChild(node, ch, child))

\* how a search ended ("none": it returned value) and the subtree it leaves
Searched(node, how, value) == [node |-> node, how |-> how, value |-> value]

\* the keys of a std::map in the order its iteration visits them
RECURSIVE InOrderKeys(_)
InOrderKeys(keys) ==
    IF keys = {} THEN <<>>
    ELSE LET least == CHOOSE k \in keys : \A j \in keys : k <= j
         IN <<least>> \o InOrderKeys(keys \ {least})

\* bool wordSearchHelper(const int &index, Node *node, const std::string &word);
\* entries is what is left of the loop over the children at a wildcard
RECURSIVE wordSearchHelper(_, _, _)
RECURSIVE wildcardLoop(_, _, _, _)
wordSearchHelper(index, currNode, word) ==
    IF currNode = NIL THEN Searched(currNode, "null_deref", FALSE)
    ELSE IF index >= Len(word) THEN Searched(currNode, "none", currNode.endOfWord)
    ELSE LET ch == At(word, index)
         IN IF ch = Star
            THEN wildcardLoop(index, currNode, word,
                              InOrderKeys(DOMAIN currNode.children))
            ELSE IF ch \notin DOMAIN currNode.children
            THEN Searched(SetChild(currNode, ch, NIL), "none", FALSE)
            ELSE IF currNode.children[ch] = NIL
            THEN Searched(currNode, "none", FALSE)
            ELSE Once(wordSearchHelper(index + 1, currNode.children[ch], word),
                      LAMBDA found :
                        Searched(SetChild(currNode, ch, found.node),
                                 found.how, found.value))

wildcardLoop(index, currNode, word, entries) ==
    IF entries = <<>> THEN Searched(currNode, "none", FALSE)
    ELSE Once(wordSearchHelper(index + 1, currNode.children[Head(entries)], word),
              LAMBDA found :
                IF found.how # "none" \/ found.value
                THEN Searched(SetChild(currNode, Head(entries), found.node),
                              found.how, found.value)
                ELSE wildcardLoop(index, SetChild(currNode, Head(entries), found.node),
                                  word, Tail(entries)))

\* void insert(const std::string &word)
TrieInsert(word) ==
    /\ fault = "none"
    /\ trieCalls < MaxCalls
    /\ trieCalls' = trieCalls + 1
    /\ UNCHANGED notTrie
    /\ LET newRoot == insertFrom(trie.root, word, 0)
       IN IF newRoot = CRASH
          THEN /\ fault' = "null_deref"
               /\ lastOp' = Call("trie.insert", word, FALSE)
               /\ UNCHANGED trie
          ELSE /\ trie' = [root |-> newRoot, wordCount_ |-> trie.wordCount_ + 1]
               /\ lastOp' = Call("trie.insert", word, Returns("void"))
               /\ UNCHANGED fault

\* void remove(const std::string &word); root is never nullptr
TrieRemove(word) ==
    /\ fault = "none"
    /\ trieCalls < MaxCalls
    /\ trieCalls' = trieCalls + 1
    /\ UNCHANGED <<fault, notTrie>>
    /\ trie' = [root |-> wordRemoverDFS(trie.root, 0, word),
                wordCount_ |-> trie.wordCount_ - 1]
    /\ lastOp' = Call("trie.remove", word, Returns("void"))

\* bool search(const std::string &word) const
Search(word) ==
    /\ fault = "none"
    /\ trieCalls < MaxCalls
    /\ trieCalls' = trieCalls + 1
    /\ UNCHANGED notTrie
    /\ LET found == wordSearchHelper(0, trie.root, word)
       IN /\ trie' = [trie EXCEPT !.root = found.node]
          /\ IF found.how # "none"
             THEN /\ fault' = found.how
                  /\ lastOp' = Call("search", word, FALSE)
             ELSE /\ UNCHANGED fault
                  /\ lastOp' = Call("search", word, Returns(found.value))

NextTrie ==
    \/ \E word \in Words :
        \/ TrieInsert(word)
        \/ TrieRemove(word)
    \/ \E word \in Patterns : Search(word)

SpecTrie == Init /\ [][NextTrie]_vars

\* ----------------------------------------------------------------- claims
\* contains(x) returns, and returns v
containsReturns(x, v) ==
    /\ x = 0 \/ root = NIL \/ ~rootFreed
    /\ binarySearch(x) = v

\* C1: after any sequence of insert and remove calls from the empty tree,
\* the in-order traversal yields the keys in strictly ascending order.
C1_InOrderAscending ==
    Returned => StrictlyAscending(InOrder(root))

\* C2: after any public insert or remove returns, every node's balance
\* factor height(right) - height(left), from the actual subtree heights, is
\* in {-1, 0, 1}.
C2_BalancedAfterEveryCall ==
    (Returned /\ lastOp.op \in {"insert", "remove"}) => AllBalanced(root)

\* C3: after every insert and remove, size() equals the number of non-nil
\* nodes reachable from root.
C3_SizeIsNodeCount ==
    (Returned /\ lastOp.op \in {"insert", "remove"}) => size = CountNodes(root)

\* C4: insert(k) of a key that is already stored changes neither size() nor
\* the in-order key sequence.
C4_InsertStoredKeyIsNoOp ==
    (/\ lastOp.op = "insert"
     /\ ~pre.rootFreed
     /\ lastOp.key \in KeySet(pre.root))
    => /\ Returned
       /\ size = pre.treeSize
       /\ InOrder(root) = InOrder(pre.root)

\* C5: remove(key) of a key that is not stored, on any tree, completes
\* without error and leaves structure, keys and size() unchanged.
C5_RemoveAbsentKeyIsNoOp ==
    (/\ lastOp.op = "remove"
     /\ ~pre.rootFreed
     /\ lastOp.key \notin KeySet(pre.root))
    => /\ Returned
       /\ root = pre.root
       /\ rootFreed = pre.rootFreed
       /\ size = pre.treeSize

\* C6: remove(k) of a stored key k in a tree of distinct keys removes
\* exactly k: contains(k) is false afterwards, every other stored key is
\* still stored, and size() has decreased by exactly 1.
C6_RemoveStoredKey ==
    (/\ lastOp.op = "remove"
     /\ ~pre.rootFreed
     /\ pre.treeSize = CountNodes(pre.root)
     /\ DistinctKeys(pre.root)
     /\ lastOp.key \in KeySet(pre.root))
    => /\ Returned
       /\ containsReturns(lastOp.key, FALSE)
       /\ KeySet(root) = KeySet(pre.root) \ {lastOp.key}
       /\ size = pre.treeSize - 1

\* C7: contains(x) returns true iff x is one of the keys currently stored,
\* for every key value x including 0; on the empty tree it returns false.
C7_ContainsIffStored ==
    (lastOp.op = "contains" /\ ~rootFreed)
    => /\ Returned
       /\ lastOp.ret = (lastOp.key \in KeySet(root))

\* C8: remove(key) on a tree whose only node holds key leaves root = null
\* and size() = 0, so isEmpty() returns true afterwards.
C8_RemoveOnlyNodeEmptiesTree ==
    (/\ lastOp.op = "remove"
     /\ ~pre.rootFreed
     /\ pre.root # NIL
     /\ CountNodes(pre.root) = 1
     /\ pre.treeSize = 1
     /\ pre.root.data = lastOp.key)
    => /\ Returned
       /\ root = NIL
       /\ size = 0
       /\ isEmpty

\* C9: for any reachable tree and key k not stored in it, insert(k) followed
\* immediately by remove(k) yields a tree whose in-order key sequence and
\* size() equal those before the insert.
C9_InsertThenRemoveRoundTrip ==
    [][(/\ lastOp.op = "insert"
        /\ Returned
        /\ ~pre.rootFreed
        /\ lastOp.key \notin KeySet(pre.root)
        /\ lastOp'.op = "remove"
        /\ lastOp'.key = lastOp.key)
       => /\ fault' = "none"
          /\ root' = NIL \/ ~rootFreed'
          /\ InOrder(root') = InOrder(pre.root)
          /\ treeSize' = pre.treeSize]_vars

\* C10: every insertion order of three distinct keys a < b < c into an empty
\* tree gives root b with left child a and right child c, all balance
\* factors 0 and size 3.
Leaf(node, key) ==
    /\ node # NIL
    /\ node.data = key
    /\ node.left = NIL
    /\ node.right = NIL
    /\ node.balanceFactor = 0

C10_ThreeKeysBalanced ==
    (/\ log # Overflow
     /\ Len(log) = 3
     /\ Cardinality({log[1], log[2], log[3]}) = 3)
    => \E a, b, c \in {log[1], log[2], log[3]} :
          /\ a < b
          /\ b < c
          /\ Returned
          /\ root # NIL
          /\ root.data = b
          /\ root.balanceFactor = 0
          /\ ActualBalance(root) = 0
          /\ Leaf(root.left, a)
          /\ Leaf(root.right, c)
          /\ size = 3

\* 30, 10, 20: the left-right case has been rotated into place
C10_Witness ==
    /\ log = <<3, 1, 2>>
    /\ lastOp.op = "insert"
    /\ root # NIL
    /\ root.data = 2
    /\ size = 3

\* C11: inserting the keys 1..7 in ascending order into an empty tree yields
\* a perfectly balanced tree of height 2 with root 4 and every level full,
\* not a stick of height 6.
RECURSIVE Perfect(_)
Perfect(node) ==
    IF node = NIL THEN TRUE
    ELSE /\ ActualHeight(node.left) = ActualHeight(node.right)
         /\ Perfect(node.left)
         /\ Perfect(node.right)

C11_AscendingSevenPerfect ==
    log = <<1, 2, 3, 4, 5, 6, 7>>
    => /\ Returned
       /\ root # NIL
       /\ root.data = 4
       /\ ActualHeight(root) = 2
       /\ CountNodes(root) = 7
       /\ Perfect(root)
       /\ InOrder(root) = <<1, 2, 3, 4, 5, 6, 7>>
       /\ size = 7

C11_Witness ==
    /\ log = <<1, 2, 3, 4, 5, 6, 7>>
    /\ lastOp = Call("insert", 7, FALSE)
    /\ root # NIL
    /\ root.height = 2

\* C12: isBalanced() returns true iff every node of the tree has a balance
\* factor in {-1, 0, 1}; it returns true for a valid two-node tree, whose
\* root has balance factor +1 or -1.
C12_IsBalancedIffAllBalanced ==
    (lastOp.op = "isBalanced" /\ ~rootFreed /\ DistinctKeys(root))
    => /\ Returned
       /\ lastOp.ret = AllBalanced(root)

\* C13: a.equals(b) returns true iff a and b have the same size, the same
\* shape and equal data at every corresponding level-order position; two
\* empty trees are equal, and same-size trees of different shape compare
\* unequal without the call failing.
RECURSIVE SameShapeAndData(_, _)
SameShapeAndData(a, b) ==
    IF a = NIL \/ b = NIL THEN a = b
    ELSE /\ a.data = b.data
         /\ SameShapeAndData(a.left, b.left)
         /\ SameShapeAndData(a.right, b.right)

C13_EqualsIffSameTree ==
    (lastOp.op = "equals" /\ ~rootFreed)
    => /\ Returned
       /\ lastOp.ret = (size = other.treeSize /\ SameShapeAndData(root, other.root))

\* C14: clear() on any reachable tree frees every node, leaves size() = 0
\* and root = null, and does not raise the 'elements still exist on the
\* heap' error.
C14_ClearEmptiesTree ==
    (lastOp.op = "clear" /\ ~pre.rootFreed)
    => /\ Returned
       /\ lastOp.ret = Returns("void")
       /\ root = NIL
       /\ size = 0

\* C15: copy assignment (and copy construction, which is assignment to an
\* empty tree) terminates and leaves this tree holding the same keys as the
\* source, in nodes of its own.
C15_CopyTerminatesWithSameKeys ==
    (lastOp.op = "operator=" /\ ~pre.rootFreed)
    => /\ Returned
       /\ lastOp.ret # Throws(ClearError)
       /\ root = NIL \/ ~rootFreed
       /\ KeySet(root) = KeySet(other.root)
       /\ size = other.treeSize

\* C16: print with type "Pre" emits the keys in pre-order (node, left
\* subtree in pre-order, right subtree in pre-order), "Post" emits them in
\* post-order and "In" in in-order, for every tree.
RECURSIVE PreOrder(_)
PreOrder(node) ==
    IF node = NIL THEN <<>>
    ELSE <<node.data>> \o PreOrder(node.left) \o PreOrder(node.right)

RECURSIVE PostOrder(_)
PostOrder(node) ==
    IF node = NIL THEN <<>>
    ELSE PostOrder(node.left) \o PostOrder(node.right) \o <<node.data>>

C16_PrintOrders ==
    (/\ lastOp.op = "print"
     /\ lastOp.key \in {"Pre", "Post", "In"}
     /\ ~rootFreed
     /\ DistinctKeys(root))
    => /\ Returned
       /\ lastOp.ret = IF lastOp.key = "Pre" THEN PreOrder(root)
                       ELSE IF lastOp.key = "Post" THEN PostOrder(root)
                       ELSE InOrder(root)

\* C17: after any sequence of push and pop, top() returns the most recently
\* pushed element that has not been popped; top() after push(x) returns x.
C17_TopIsLastPushed ==
    (lastOp.op = "top" /\ pushed # <<>>)
    => /\ Returned
       /\ lastOp.ret = Returns(pushed[Len(pushed)])

\* C18: size() always equals the number of nodes reachable from head_, so
\* clear() on any stack reachable by push/pop ends with isEmpty() true and
\* size() 0 and never raises the 'nodes still exist' error.
C18_StackSizeIsNodeCount ==
    /\ Returned => stack.size_ = Len(stack.head_)
    /\ lastOp.op = "stack.clear"
       => /\ Returned
          /\ lastOp.ret = Returns("void")
          /\ stack.head_ = <<>>
          /\ stack.size_ = 0

\* C19: after any sequence of enqueue and dequeue, front() returns the
\* earliest enqueued element not yet dequeued, dequeue() removes exactly
\* that element, and size() equals the number of elements still queued.
C19_QueueIsFIFO ==
    /\ (lastOp.op = "front" /\ queued # <<>>)
       => /\ Returned
          /\ lastOp.ret = Returns(Head(queued))
    /\ lastOp.op \in {"enqueue", "dequeue"}
       => /\ Returned
          /\ queue.head_ = queued
          /\ queue.size_ = Len(queued)

\* C20: whenever the queue holds no elements, also after enqueueing and
\* then dequeueing everything, head_ and tail_ are both null and size() is
\* 0, so front() and back() raise the 'called on empty' error.
C20_EmptyQueueIsNull ==
    (Returned /\ queued = <<>>)
    => /\ queue.head_ = <<>>
       /\ queue.tail_ = "nullptr"
       /\ queue.size_ = 0
       /\ lastOp.op = "front" => lastOp.ret = Throws(FrontError)
       /\ lastOp.op = "back" => lastOp.ret = Throws(BackError)

\* C21: after any sequence of insert and removeMin, peek() on a non-empty
\* queue returns the minimum of the elements currently stored: no stored
\* element at index i >= 2 is smaller than its parent at index i/2.
Stored == {heap.minHeap[i] : i \in 1..heap.size_}

C21_PeekIsMinimum ==
    /\ \A i \in 2..heap.size_ : heap.minHeap[i] >= heap.minHeap[i \div 2]
    /\ (lastOp.op = "peek" /\ heap.size_ > 0)
       => /\ Returned
          /\ \A x \in Stored : lastOp.ret.value <= x

\* C22: peek() and removeMin() called when size() = 0 raise a runtime error
\* and leave the heap's contents and size unchanged.
C22_EmptyHeapRaises ==
    [][(heap.size_ = 0 /\ lastOp'.op \in {"peek", "removeMin"})
       => /\ fault' = "none"
          /\ lastOp'.ret = IF lastOp'.op = "peek" THEN Throws(PeekError)
                           ELSE Throws(RemoveMinError)
          /\ heap' = heap]_vars

C22_Witness ==
    /\ lastOp = Call("removeMin", 0, Throws(RemoveMinError))
    /\ heap.size_ = 0
    /\ \E i \in 1..(HeapCapacity - 1) : heap.minHeap[i] # 0

\* C23: insert(key, value) and add(key, value) for a key already present
\* overwrite its value and add no entry; after every insert, add, remove and
\* erase each key is in at most one entry, and that entry is in bucket
\* key % 10; remove of an absent key leaves the table unchanged.
KeyCount(t, key) ==
    Cardinality({bi \in (0..(buckets - 1)) \X (1..MaxEntries) :
                    /\ bi[2] <= Len(t[bi[1]])
                    /\ t[bi[1]][bi[2]].first = key})

HasPair(t, key, value) ==
    \E b \in 0..(buckets - 1) : \E i \in 1..Len(t[b]) :
        t[b][i] = [first |-> key, second |-> value]

TableWrites == {"table.insert", "table.add", "table.remove", "table.erase"}

\* what C23 says of one step that is a call of insert, add, remove or erase
C23Step ==
    /\ fault' = "none"
    /\ \A key \in TableKeys : KeyCount(table', key) <= 1
    /\ \A b \in 0..(buckets - 1) : \A i \in 1..Len(table'[b]) :
          table'[b][i].first % buckets = b
    /\ lastOp'.op \in {"table.insert", "table.add"}
       => /\ HasPair(table', lastOp'.key, lastOp'.value)
          /\ KeyCount(table, lastOp'.key) = 1
             => sumSizes(table', 0) = sumSizes(table, 0)
    /\ (/\ lastOp'.op \in {"table.remove", "table.erase"}
        /\ KeyCount(table, lastOp'.key) = 0)
       => table' = table

C23_OneEntryPerKey ==
    [][lastOp'.op \in TableWrites => C23Step]_vars

\* the same for the calls whose key is not negative, the keys hashFunction
\* maps to a bucket of the array
C23_NonNegativeKeys ==
    [][(lastOp'.op \in TableWrites /\ lastOp'.key >= 0) => C23Step]_vars

\* C24: containsKey(key) returns for every table and every key, and it
\* returns true exactly when an entry with that key is in the table, also
\* when other keys come before it in its bucket or are alone in it.
C24_ContainsKeyIffPresent ==
    [][(fault = "none" /\ lastOp'.op = "containsKey" /\ lastOp'.key >= 0)
       => /\ fault' = "none"
          /\ lastOp'.ret = Returns(KeyCount(table, lastOp'.key) > 0)]_vars

\* C25: after pushBack(x) on any list back() returns x, size() is one more
\* than before and the elements from head are the previous ones followed by
\* x; after pushFront(x) front() returns x, size() is one more and the
\* elements from head are x followed by the previous ones.
\* the elements of a list in order from head_
Chain(lst) == ChainFrom(lst, lst.head_, Len(lst.nodes))

DataAt(lst, p) == IF deref(lst, p) = "none" THEN <<lst.nodes[p].data>> ELSE <<>>

C25_PushAddsAtEnd ==
    [][(fault = "none" /\ lastOp'.op \in {"pushBack", "pushFront"})
       => /\ fault' = "none"
          /\ lastOp'.ret = Returns("void")
          /\ list'.size_ = list.size_ + 1
          /\ lastOp'.op = "pushBack"
             => /\ DataAt(list', list'.tail_) = <<lastOp'.key>>
                /\ Chain(list') = Append(Chain(list), lastOp'.key)
          /\ lastOp'.op = "pushFront"
             => /\ DataAt(list', list'.head_) = <<lastOp'.key>>
                /\ Chain(list') = <<lastOp'.key>> \o Chain(list)]_vars

\* C26: isSorted() returns true exactly when A <= B for every two adjacent
\* items A, B of the list, so a list with equal adjacent items is sorted.
\* Checked on lists whose size() items are all reachable from head_.
NonDecreasing(seq) == \A i \in 1..(Len(seq) - 1) : seq[i] <= seq[i + 1]

Increasing(seq) == \A i \in 1..(Len(seq) - 1) : seq[i] < seq[i + 1]

C26_IsSortedIffNonDecreasing ==
    (lastOp.op = "isSorted" /\ fault = "none" /\ Len(Chain(list)) = list.size_)
    => lastOp.ret = Returns(NonDecreasing(Chain(list)))

\* what isSorted() computes instead: every item is less than the next
C26_IsSortedIffIncreasing ==
    (lastOp.op = "isSorted" /\ fault = "none" /\ Len(Chain(list)) = list.size_)
    => lastOp.ret = Returns(Increasing(Chain(list)))

\* C27: merge(other) on two sorted lists returns for every pair of inputs,
\* also when both hold an equal item and when one list is exhausted before
\* the other, and the list it returns is sorted and holds all items of both.
\* Checked on lists whose size() items are all reachable from head_.
RECURSIVE InsertSorted(_, _)
InsertSorted(seq, x) ==
    IF seq = <<>> THEN <<x>>
    ELSE IF x <= Head(seq) THEN <<x>> \o seq
    ELSE <<Head(seq)>> \o InsertSorted(Tail(seq), x)

RECURSIVE Sorted(_)
Sorted(seq) ==
    IF seq = <<>> THEN <<>> ELSE InsertSorted(Sorted(Tail(seq)), Head(seq))

Whole(lst) == Len(Chain(lst)) = lst.size_

C27_MergeSortedLists ==
    (/\ lastOp.op = "merge"
     /\ Whole(list) /\ NonDecreasing(Chain(list))
     /\ Whole(obj) /\ NonDecreasing(Chain(obj)))
    => /\ fault = "none"
       /\ lastOp.ret = Returns([items |-> Sorted(Chain(list) \o Chain(obj)),
                                size |-> list.size_ + obj.size_])

\* C28: after remove(word) the words for which search returns true are the
\* ones before without word: a stored prefix or extension of word stays,
\* and removing a word that is not stored removes nothing.
WordsFound(node) == {w \in Words : wordSearchHelper(0, node, w).value}

C28_RemoveOnlyThatWord ==
    [][lastOp'.op = "trie.remove"
       => /\ fault' = "none"
          /\ WordsFound(trie'.root) = WordsFound(trie.root) \ {lastOp'.key}]_vars

\* C29: size() is the number of distinct words stored, it is never negative,
\* and neither inserting a stored word again nor removing a word that is not
\* stored changes it.
C29_SizeIsWordCount ==
    /\ trie.wordCount_ = Cardinality(WordsFound(trie.root))
    /\ trie.wordCount_ >= 0

\* C30: search(pattern) returns true exactly when a stored word has the
\* length of the pattern and the pattern's char at every position where the
\* pattern has no '*'; a '*' stands for exactly one char.
Matches(word, pattern) ==
    /\ Len(word) = Len(pattern)
    /\ \A i \in 1..Len(pattern) : pattern[i] = Star \/ pattern[i] = word[i]

C30_SearchMatchesPattern ==
    [][(fault = "none" /\ lastOp'.op = "search")
       => /\ fault' = "none"
          /\ lastOp'.ret = Returns(\E w \in WordsFound(trie.root) :
                                      Matches(w, lastOp'.key))]_vars

\* C31: in a run of insert calls with distinct keys from the empty tree,
\* every insert returns and leaves every node with an actual balance factor
\* height(right) - height(left) in {-1, 0, 1}.
C31_DistinctInsertsBalanced ==
    /\ Returned
    /\ AllBalanced(root)

\* five or more distinct keys are in and a rotation has replaced the first
\* key at the root
C31_Witness ==
    /\ log # Overflow
    /\ Len(log) >= 5
    /\ lastOp.op = "insert"
    /\ Returned
    /\ root # NIL
    /\ root.data # log[1]
    /\ CountNodes(root) = Len(log)

\* C32: after every public insert and remove returns, each node's cached
\* height is 1 + max(height(left), height(right)) with nil = -1, and its
\* cached balanceFactor is height(right) - height(left) of its actual
\* subtrees.
RECURSIVE CachedExact(_)
CachedExact(node) ==
    IF node = NIL THEN TRUE
    ELSE /\ node.height = ActualHeight(node)
         /\ node.balanceFactor = ActualBalance(node)
         /\ CachedExact(node.left)
         /\ CachedExact(node.right)

C32_CachedHeightsExact ==
    (Returned /\ ~rootFreed /\ lastOp.op \in {"insert", "remove"})
    => CachedExact(root)

\* the same after insert calls only
C32_CachedExactAfterInserts ==
    (Returned /\ log # Overflow) => CachedExact(root)

\* C33: no operation (remove, clear, the destructor, a later insert or
\* contains) reads or writes a node after it has been freed, and no freed
\* node is reachable from root after a public operation returns.
C33_NoUseAfterFree ==
    /\ fault # "use_after_free"
    /\ ~(root # NIL /\ rootFreed)

\* the two halves of C33
C33_NoAccessAfterFree == fault # "use_after_free"

C33_NoFreedNodeReachable == Returned => ~(root # NIL /\ rootFreed)

\* C34: leftRotation and rightRotation, applied to a node that has the
\* required child, keep the in-order key sequence of the subtree and its
\* nodes (none created or lost, the three subtrees hanging below the two
\* nodes untouched), return the former child as the new subtree root with
\* the old root as its child on the other side, and leave the cached height
\* and balanceFactor of both nodes recomputed from their children.
Recomputed(node) ==
    /\ node.height = 1 + Max(cachedHeight(node.left), cachedHeight(node.right))
    /\ node.balanceFactor = cachedHeight(node.right) - cachedHeight(node.left)

LeftRotated(node, newParent) ==
    /\ newParent # CRASH
    /\ InOrder(newParent) = InOrder(node)
    /\ CountNodes(newParent) = CountNodes(node)
    /\ newParent.data = node.right.data
    /\ newParent.left # NIL
    /\ newParent.left.data = node.data
    /\ newParent.left.left = node.left
    /\ newParent.left.right = node.right.left
    /\ newParent.right = node.right.right
    /\ Recomputed(newParent.left)
    /\ Recomputed(newParent)
    /\ (CachedExact(node.left) /\ CachedExact(node.right.left)
            /\ CachedExact(node.right.right)) => CachedExact(newParent)

RightRotated(node, newParent) ==
    /\ newParent # CRASH
    /\ InOrder(newParent) = InOrder(node)
    /\ CountNodes(newParent) = CountNodes(node)
    /\ newParent.data = node.left.data
    /\ newParent.right # NIL
    /\ newParent.right.data = node.data
    /\ newParent.right.right = node.right
    /\ newParent.right.left = node.left.right
    /\ newParent.left = node.left.left
    /\ Recomputed(newParent.right)
    /\ Recomputed(newParent)
    /\ (CachedExact(node.right) /\ CachedExact(node.left.right)
            /\ CachedExact(node.left.left)) => CachedExact(newParent)

C34_RotationsPreserve ==
    /\ lastOp.op = "leftRotation" => LeftRotated(lastOp.key, lastOp.ret.value)
    /\ lastOp.op = "rightRotation" => RightRotated(lastOp.key, lastOp.ret.value)

\* a right rotation that hands the right subtree of the lifted child over
\* to the node it goes past
C34_Witness ==
    /\ lastOp.op = "rightRotation"
    /\ lastOp.key.left.right # NIL
    /\ lastOp.key.right # NIL
    /\ lastOp.ret.value.right.left = lastOp.key.left.right
    /\ lastOp.ret.value.data = lastOp.key.left.data

\* a left rotation of a right-heavy stick that a remove has left behind
C34_WitnessLeft ==
    /\ lastOp.op = "leftRotation"
    /\ lastOp.key.left = NIL
    /\ lastOp.key.right.left = NIL
    /\ lastOp.key.right.right # NIL
    /\ ActualBalance(lastOp.key) = 2
    /\ ActualBalance(lastOp.ret.value) = 0

====
